---- MODULE Spec2Model ----
(***************************************************************************)
(* gostripe: the payment-event reconciliation engine.                      *)
(*                                                                         *)
(* The three durable tables (stripe_customers, stripe_subscriptions,       *)
(* stripe_processed_sessions), the billing provider as seen through the    *)
(* Stripe SDK calls, and the HTTP handlers of package api.  Every handler  *)
(* is a sequence of steps, one step per storage call (provider calls do    *)
(* not touch the tables and are folded into the neighbouring storage       *)
(* step), so that concurrent requests interleave between any two storage   *)
(* calls exactly as the HTTP server lets them.                             *)
(***************************************************************************)
EXTENDS Integers, Sequences, FiniteSets, TLC

VARIABLES
  customers,      \* rows of stripe_customers
  subscriptions,  \* rows of stripe_subscriptions
  processed,      \* rows of stripe_processed_sessions
  stripe,         \* the provider's sessions and subscriptions
  slots,          \* the requests in flight or just answered, one per connection
  nreq,           \* requests started so far
  mode,           \* how the clients send: "seq" one request at a time, "conc" in parallel
  pre             \* "seq" only: the tables as the latest request found them

vars == <<customers, subscriptions, processed, stripe, slots, nreq, mode, pre>>
db == <<customers, subscriptions, processed>>
env == <<stripe, mode, pre>>

-----------------------------------------------------------------------------
(* Bounds and domains *)

\* requests started in a run, per specification
MaxReqs == 2
MaxSyncReqs == 2
MaxSeqReqs == 2
MaxLifeReqs == 3
MaxRaceReqs == 3
MaxSettleReqs == 3

Procs == {"p1", "p2"}
Users == {"u1", "u2"}
SessionIDs == {"cs_1", "cs_2"}
SubIDs == {"sub_1", "sub_2"}

-----------------------------------------------------------------------------
(* Time *)

\* time.Unix(sec, 0)
TimeUnix(sec) == [sec |-> sec, nsec |-> 0]

\* a NULL timestamp column / nil *time.Time
NullTime == [sec |-> -1, nsec |-> 0]

\* time.Now(): the wall clock of the server, later than every period start
Now == [sec |-> 150, nsec |-> 7]

\* time.Now().AddDate(0, 1, 0).Unix()
NowPlusOneMonthUnix == Now.sec + 30

-----------------------------------------------------------------------------
(* Rows *)

NoCustomer == [id |-> 0, user_id |-> "", stripe_id |-> ""]
NoSubscription ==
  [id |-> 0, customer_id |-> 0, stripe_id |-> "", status |-> "", price_id |-> "",
   current_period_end |-> NullTime, canceled_at |-> NullTime]
NoProcessed == [id |-> 0, session_id |-> "", user_id |-> ""]

SubscriptionStatusActive == "active"
SubscriptionStatusCanceled == "canceled"

\* uuid.NewV4(): an id no row of the table has (rows are never deleted)
NewID(tbl) == Cardinality(tbl) + 1

-----------------------------------------------------------------------------
(* models/customer.go *)

\* a lookup that finds no row
FindCustomerByUserIDNever(tbl, userID) == {NoCustomer}

\* conn.Where("user_id = ?").First: a matching row, any of them when the
\* query matches several (no ORDER BY); {NoCustomer} stands for (nil, nil)
FindCustomerByUserID(tbl, userID) ==
  LET m == {c \in tbl : c.user_id = userID}
  IN IF m = {} THEN {NoCustomer} ELSE m

FindCustomerByStripeID(tbl, stripeID) ==
  LET m == {c \in tbl : c.stripe_id = stripeID}
  IN IF m = {} THEN {NoCustomer} ELSE m

\* the schema of stripe_customers: a primary key on id, plain (non-unique)
\* indexes on user_id and stripe_id, so an insert is only refused by a
\* storage fault
CustomerInsertAllowed(tbl, row) == \A c \in tbl : c.id # row.id

CreateCustomer(tbl, userID, stripeID) ==
  LET row == [id |-> NewID(tbl), user_id |-> userID, stripe_id |-> stripeID]
  IN IF CustomerInsertAllowed(tbl, row)
     THEN [err |-> FALSE, row |-> row, tbl |-> tbl \cup {row}]
     ELSE [err |-> TRUE, row |-> NoCustomer, tbl |-> tbl]

-----------------------------------------------------------------------------
(* models/subscription.go *)

FindSubscriptionByStripeIDNever(tbl, stripeID) == {NoSubscription}

FindSubscriptionByStripeID(tbl, stripeID) ==
  LET m == {s \in tbl : s.stripe_id = stripeID}
  IN IF m = {} THEN {NoSubscription} ELSE m

\* a lookup that does not look at the status
FindAnySubscriptionByCustomerID(tbl, customerID) ==
  LET m == {s \in tbl : s.customer_id = customerID}
  IN IF m = {} THEN {NoSubscription} ELSE m

FindActiveSubscriptionByCustomerID(tbl, customerID) ==
  LET m == {s \in tbl : s.customer_id = customerID /\ s.status = SubscriptionStatusActive}
  IN IF m = {} THEN {NoSubscription} ELSE m

\* the schema of stripe_subscriptions: a primary key on id, a plain index on
\* stripe_id
SubscriptionInsertAllowed(tbl, row) == \A s \in tbl : s.id # row.id

CreateSubscription(tbl, customerID, stripeID, priceID, status, currentPeriodEnd) ==
  LET row == [id |-> NewID(tbl), customer_id |-> customerID, stripe_id |-> stripeID,
              status |-> status, price_id |-> priceID,
              current_period_end |-> currentPeriodEnd, canceled_at |-> NullTime]
  IN IF SubscriptionInsertAllowed(tbl, row)
     THEN [err |-> FALSE, row |-> row, tbl |-> tbl \cup {row}]
     ELSE [err |-> TRUE, row |-> NoSubscription, tbl |-> tbl]

\* an update that removes the row once it is canceled
UpdateSubscriptionDropsCanceled(tbl, row) ==
  IF row.status = SubscriptionStatusCanceled
  THEN {s \in tbl : s.id # row.id}
  ELSE {s \in tbl : s.id # row.id} \cup {row}

\* an update that leaves a stored canceled-at in place when the caller's image
\* has none
UpdateSubscriptionKeepsStamp(tbl, row) ==
  {s \in tbl : s.id # row.id} \cup
  { IF row.canceled_at = NullTime THEN [row EXCEPT !.canceled_at = s.canceled_at] ELSE row
      : s \in {x \in tbl : x.id = row.id} }

\* conn.Update: every column of the row with this primary key is replaced by
\* the image the caller holds
UpdateSubscription(tbl, row) == {s \in tbl : s.id # row.id} \cup {row}

-----------------------------------------------------------------------------
(* models/processed_session.go *)

ErrNoRows == "sql: no rows in result set"
ErrFindProcessed == "error finding processed session"
ErrCreateProcessed == "error creating processed session"

\* storageFault: the query itself failed (connection lost, ...)
FindProcessedSessionBySessionID(tbl, sessionID, storageFault) ==
  LET m == {r \in tbl : r.session_id = sessionID}
  IN IF storageFault THEN {[row |-> NoProcessed, err |-> ErrFindProcessed]}
     ELSE IF m = {} THEN {[row |-> NoProcessed, err |-> ErrNoRows]}
     ELSE {[row |-> r, err |-> ""] : r \in m}

\* a schema without the UNIQUE constraint on session_id
ProcessedInsertAllowedNoUnique(tbl, row) == \A r \in tbl : r.id # row.id

\* the schema of stripe_processed_sessions: session_id ... NOT NULL UNIQUE
ProcessedInsertAllowed(tbl, row) ==
  \A r \in tbl : r.id # row.id /\ r.session_id # row.session_id

CreateProcessedSession(tbl, sessionID, userID, storageFault) ==
  LET row == [id |-> NewID(tbl), session_id |-> sessionID, user_id |-> userID]
  IN IF storageFault \/ ~ProcessedInsertAllowed(tbl, row)
     THEN [err |-> ErrCreateProcessed, row |-> NoProcessed, tbl |-> tbl]
     ELSE [err |-> "", row |-> row, tbl |-> tbl \cup {row}]

-----------------------------------------------------------------------------
(* The billing provider, as the Stripe SDK calls of package api see it *)

\* The provider's data does not change during a run; Init picks one of these.
\* sub_1 belongs to provider customer cus_1 and was bought in session cs_1;
\* cs_2 is either a session without subscription of customer cus_2 or the
\* session in which cus_1 bought a second, newer subscription sub_2.
\* canceled is the set of subscriptions the provider was told to cancel.
Sub1Variants ==
  { [id |-> "sub_1", customer |-> "cus_1", status |-> "active",
     current_period_end |-> 100, items |-> <<"price_A">>, created |-> 10],
    [id |-> "sub_1", customer |-> "cus_1", status |-> "trialing",
     current_period_end |-> 100, items |-> <<>>, created |-> 10] }

Sub2 ==
  [id |-> "sub_2", customer |-> "cus_1", status |-> "active",
   current_period_end |-> 200, items |-> <<"price_B">>, created |-> 20]

ProviderScenarios ==
  { [sessions |-> [s \in SessionIDs |->
                     IF s = "cs_1" THEN [customer |-> "cus_1", subscription |-> "sub_1"]
                     ELSE [customer |-> "cus_2", subscription |-> ""]],
     subs |-> {s1}, canceled |-> {}] : s1 \in Sub1Variants }
  \cup
  { [sessions |-> [s \in SessionIDs |->
                     IF s = "cs_1" THEN [customer |-> "cus_1", subscription |-> "sub_1"]
                     ELSE [customer |-> "cus_1", subscription |-> "sub_2"]],
     subs |-> {s1, Sub2}, canceled |-> {}] : s1 \in Sub1Variants }

StripeSub(id) == CHOOSE s \in stripe.subs : s.id = id

\* a listing that is not narrowed to the customer
ListSubscriptionsOfAnyone(customerID) ==
  {s \in stripe.subs : \A t \in stripe.subs : t.created <= s.created}

\* sub.List(customer, status: "all", limit: 1): the newest subscription of the
\* customer, if any
ListSubscriptions(customerID) ==
  LET m == {s \in stripe.subs : s.customer = customerID}
  IN {s \in m : \A t \in m : t.created <= s.created}

DefaultPriceID == "price_1PSQokJKyP34gH73kOw1DhX1"

\* len(stripeSub.Items.Data) > 0 && stripeSub.Items.Data[0].Price != nil
PriceOf(items) ==
  IF Len(items) > 0 /\ items[1] # "" THEN items[1] ELSE DefaultPriceID

NoSnap == [stripe_id |-> "", status |-> "", price_id |-> "", current_period_end |-> NullTime]

\* a snapshot that takes every subscription of the provider for active
SnapshotAlwaysActive(s) ==
  [stripe_id |-> s.id, status |-> SubscriptionStatusActive, price_id |-> PriceOf(s.items),
   current_period_end |-> TimeUnix(s.current_period_end)]

\* stripeSubscriptionID, subscriptionStatus, currentPeriodEnd, priceID
Snapshot(s) ==
  [stripe_id |-> s.id, status |-> s.status, price_id |-> PriceOf(s.items),
   current_period_end |-> TimeUnix(s.current_period_end)]

-----------------------------------------------------------------------------
(* Responses *)

NoResp ==
  [code |-> 0, success |-> FALSE, already_processed |-> FALSE, has_subscription |-> FALSE,
   subscription_status |-> "", current_period_end |-> NullTime, message |-> ""]

Upd(r, o) == [k \in DOMAIN r |-> IF k \in DOMAIN o THEN o[k] ELSE r[k]]

\* sendJSON(w, status, &Error{Code, Message})
ErrorResp(code, msg) == Upd(NoResp, [code |-> code, message |-> msg])
\* an error helper that answers 200
internalServerErrorAsOK(msg) == Upd(NoResp, [code |-> 200, success |-> TRUE, message |-> msg])

internalServerError(msg) == ErrorResp(500, msg)
badRequestError(msg) == ErrorResp(400, msg)

ForbiddenResp ==
  Upd(NoResp, [code |-> 403,
               message |-> "Cette session de paiement a deja ete utilisee par un autre compte"])

AlreadyProcessedMsg == "Ce paiement a deja ete traite. Votre abonnement est actif."

AlreadyProcessedGeneric ==
  Upd(NoResp, [code |-> 200, success |-> TRUE, already_processed |-> TRUE,
               message |-> AlreadyProcessedMsg])

AlreadyProcessedDetails(sub) ==
  Upd(NoResp, [code |-> 200, success |-> TRUE, already_processed |-> TRUE,
               message |-> AlreadyProcessedMsg, has_subscription |-> TRUE,
               subscription_status |-> sub.status,
               current_period_end |-> sub.current_period_end])

\* a failure reported as a success
FailureRespAsSuccess(msg) == Upd(NoResp, [code |-> 200, success |-> TRUE, message |-> msg])

FailureResp(msg) == Upd(NoResp, [code |-> 200, message |-> msg])

SyncSuccessResp(snap) ==
  Upd(NoResp, [code |-> 200, success |-> TRUE,
               message |-> "Subscription synchronized successfully",
               has_subscription |-> TRUE, subscription_status |-> snap.status,
               current_period_end |-> snap.current_period_end])

-----------------------------------------------------------------------------
(* Requests *)

NoEvent ==
  [type |-> "", sig_ok |-> FALSE, session |-> "", sub |-> "", status |-> "",
   current_period_end |-> 0, canceled_at |-> 0]

Idle ==
  [op |-> "none", user |-> "", session |-> "", ev |-> NoEvent, pc |-> "idle",
   newly |-> FALSE, cust |-> NoCustomer, sub |-> NoSubscription, scust |-> "",
   snap |-> NoSnap, ledger |-> "", resp |-> NoResp]

Put(p, o) == slots' = [slots EXCEPT ![p] = Upd(slots[p], o)]

\* the handler returns: its response is sent and its locals are gone
Finish(p, resp) ==
  Put(p, [pc |-> "done", resp |-> resp, cust |-> NoCustomer, sub |-> NoSubscription])

CanStart(p) == slots[p].pc \in {"idle", "done"}
InFlight(p) == slots[p].pc \notin {"idle", "done"}
Quiet == \A p \in Procs : ~InFlight(p)

\* the connection the next request arrives on.  One at a time: the two
\* connections take turns, so that the previous request's answer stays visible
\* beside the latest one.  In parallel: the first free connection.
NextSlot ==
  IF mode = "seq" THEN (IF nreq % 2 = 0 THEN "p1" ELSE "p2")
  ELSE IF CanStart("p1") THEN "p1" ELSE "p2"

\* the connection of the latest request
LastSlot == IF nreq % 2 = 1 THEN "p1" ELSE "p2"

Begin(p, o) ==
  /\ CanStart(p)
  /\ p = NextSlot
  /\ mode = "seq" => Quiet
  /\ slots' = [slots EXCEPT ![p] = Upd(Idle, o)]
  /\ nreq' = nreq + 1
  /\ pre' = IF mode = "seq" THEN db ELSE pre
  /\ UNCHANGED <<stripe, mode>>

InitBase ==
  /\ customers = {}
  /\ subscriptions = {}
  /\ processed = {}
  /\ stripe \in ProviderScenarios
  /\ slots = [p \in Procs |-> Idle]
  /\ nreq = 0
  /\ pre = <<{}, {}, {}>>

Init == InitBase /\ mode = "conc"
InitSeq == InitBase /\ mode = "seq"

-----------------------------------------------------------------------------
(* api.SyncSubscription with a session id: session-scoped sync *)

StartSyncSession(p) ==
  /\ \E u \in Users, s \in SessionIDs :
       Begin(p, [op |-> "sync_session", user |-> u, session |-> s, pc |-> "lookup"])
  /\ UNCHANGED db

\* an ownership check that lets every user through
SessionOwnedByOtherNever(processedSession, userID) == FALSE

\* processedSession.UserID != userID
SessionOwnedByOther(processedSession, userID) == processedSession.user_id # userID

\* a handler that gives up when the ledger cannot be read
LookupErrorAbortsOnStorageError(err) == err # "" /\ err # ErrNoRows

\* whether the error of the ledger lookup ends the request: "no rows" is the
\* first sync of the session, any other error is logged and the request goes on
LookupErrorAborts(err) == FALSE

\* FindProcessedSessionBySessionID and the branches on its result:
\* another user's session is refused, the user's own is short-circuited,
\* "no rows" and a storage error both go on to the provider
SyncLookup(p) ==
  /\ slots[p].pc = "lookup"
  /\ \E fault \in BOOLEAN :
       \E r \in FindProcessedSessionBySessionID(processed, slots[p].session, fault) :
         LET newlyCreatedSession == (r.err = ErrNoRows)
             processedSession == IF r.err # "" THEN NoProcessed ELSE r.row
         IN IF LookupErrorAborts(r.err)
            THEN Finish(p, internalServerError("Failed to check processed session"))
            ELSE IF processedSession # NoProcessed
            THEN IF SessionOwnedByOther(processedSession, slots[p].user)
                 THEN Finish(p, ForbiddenResp)
                 ELSE Put(p, [pc |-> "sc_cust"])
            ELSE Put(p, [pc |-> "fetch", newly |-> newlyCreatedSession])
  /\ UNCHANGED <<db, env, nreq>>

\* short-circuit: FindCustomerByUserID
SyncShortCustomer(p) ==
  /\ slots[p].pc = "sc_cust"
  /\ \E c \in FindCustomerByUserID(customers, slots[p].user) :
       IF c = NoCustomer
       THEN Finish(p, AlreadyProcessedGeneric)
       ELSE Put(p, [pc |-> "sc_sub", cust |-> c])
  /\ UNCHANGED <<db, env, nreq>>

\* short-circuit: FindActiveSubscriptionByCustomerID and the answer
SyncShortSubscription(p) ==
  /\ slots[p].pc = "sc_sub"
  /\ \E s \in FindActiveSubscriptionByCustomerID(subscriptions, slots[p].cust.id) :
       IF s = NoSubscription
       THEN Finish(p, AlreadyProcessedGeneric)
       ELSE Finish(p, AlreadyProcessedDetails(s))
  /\ UNCHANGED <<db, env, nreq>>

\* session.Get with subscription and customer expanded, then
\* FindCustomerByUserID
SyncFetch(p) ==
  /\ slots[p].pc = "fetch"
  /\ \E providerFails \in BOOLEAN :
       LET sess == stripe.sessions[slots[p].session]
       IN IF providerFails
          THEN Finish(p, internalServerError("Failed to retrieve Stripe session"))
          ELSE IF sess.subscription = ""
          THEN Finish(p, FailureResp("No subscription found in Stripe session"))
          ELSE \E c \in FindCustomerByUserID(customers, slots[p].user) :
                 Put(p, [pc |-> IF c = NoCustomer THEN "createcust" ELSE "findsub",
                         cust |-> c, scust |-> sess.customer,
                         snap |-> Snapshot(StripeSub(sess.subscription))])
  /\ UNCHANGED <<db, env, nreq>>

\* customer.Get(sess.Customer.ID), then CreateCustomer
SyncCreateCustomer(p) ==
  /\ slots[p].pc = "createcust"
  /\ \E fault \in {"none", "provider", "storage"} :
       LET stripeCustomerID == slots[p].scust
           res == CreateCustomer(customers, slots[p].user, stripeCustomerID)
       IN IF fault = "provider"
          THEN /\ Finish(p, internalServerError("Failed to get customer details from Stripe"))
               /\ UNCHANGED customers
          ELSE IF fault = "storage" \/ res.err
          THEN /\ Finish(p, internalServerError("Failed to create customer"))
               /\ UNCHANGED customers
          ELSE /\ customers' = res.tbl
               /\ Put(p, [pc |-> "findsub", cust |-> res.row])
  /\ UNCHANGED <<subscriptions, processed, env, nreq>>

-----------------------------------------------------------------------------
(* api.syncSubscriptionFromCustomer: customer-scoped sync *)

StartSyncCustomer(p) ==
  /\ \E u \in Users :
       Begin(p, [op |-> "sync_customer", user |-> u, pc |-> "cs_findcust"])
  /\ UNCHANGED db

\* FindCustomerByUserID, then customer.Get and sub.List
SyncCustomerFind(p) ==
  /\ slots[p].pc = "cs_findcust"
  /\ \E c \in FindCustomerByUserID(customers, slots[p].user) :
       \E fault \in {"none", "find", "get", "list"} :
         IF fault = "find"
         THEN Finish(p, internalServerError("Failed to get customer"))
         ELSE IF c = NoCustomer
         THEN Finish(p, FailureResp("Customer not found"))
         ELSE IF fault = "get"
         THEN Finish(p, internalServerError("Failed to get customer from Stripe"))
         ELSE IF fault = "list"
         THEN Finish(p, internalServerError("Failed to list subscriptions from Stripe"))
         ELSE IF ListSubscriptions(c.stripe_id) = {}
         THEN Finish(p, FailureResp("No subscription found for this customer"))
         ELSE \E s \in ListSubscriptions(c.stripe_id) :
                Put(p, [pc |-> "findsub", cust |-> c, snap |-> Snapshot(s)])
  /\ UNCHANGED <<db, env, nreq>>

-----------------------------------------------------------------------------
(* The create-or-update merge of both syncs *)

\* a merge that is followed by the ledger write in every sync
AfterMergeRecords(p) == Put(p, [pc |-> "ledger"])

\* what the handler does once the merge is stored: the session-scoped sync
\* that saw "no rows" goes on to record the session, every other sync answers
AfterMerge(p) ==
  IF slots[p].op = "sync_session" /\ slots[p].newly /\ slots[p].session # ""
  THEN Put(p, [pc |-> "ledger"])
  ELSE Finish(p, SyncSuccessResp(slots[p].snap))

\* FindSubscriptionByStripeID
MergeFind(p) ==
  /\ slots[p].pc = "findsub"
  /\ \E s \in FindSubscriptionByStripeID(subscriptions, slots[p].snap.stripe_id) :
       Put(p, [pc |-> IF s = NoSubscription THEN "createsub" ELSE "updsub", sub |-> s])
  /\ UNCHANGED <<db, env, nreq>>

\* an update branch that also hands the row to the Customer row created last
MergedImageReowned(row, snap) ==
  [row EXCEPT !.status = snap.status,
              !.current_period_end = snap.current_period_end,
              !.price_id = snap.price_id,
              !.customer_id = Cardinality(customers)]

\* the row image the update branch writes: the image read by MergeFind with
\* status, period end and price id replaced
MergedImage(row, snap) ==
  [row EXCEPT !.status = snap.status,
              !.current_period_end = snap.current_period_end,
              !.price_id = snap.price_id]

MergeUpdate(p) ==
  /\ slots[p].pc = "updsub"
  /\ \E fault \in BOOLEAN :
       IF fault
       THEN /\ Finish(p, internalServerError("Failed to update subscription"))
            /\ UNCHANGED subscriptions
       ELSE /\ subscriptions' =
                 UpdateSubscription(subscriptions, MergedImage(slots[p].sub, slots[p].snap))
            /\ AfterMerge(p)
  /\ UNCHANGED <<customers, processed, env, nreq>>

MergeCreate(p) ==
  /\ slots[p].pc = "createsub"
  /\ \E fault \in BOOLEAN :
       LET snap == slots[p].snap
           res == CreateSubscription(subscriptions, slots[p].cust.id, snap.stripe_id,
                                     snap.price_id, snap.status, snap.current_period_end)
       IN IF fault \/ res.err
          THEN /\ Finish(p, internalServerError("Failed to create subscription"))
               /\ UNCHANGED subscriptions
          ELSE /\ subscriptions' = res.tbl
               /\ AfterMerge(p)
  /\ UNCHANGED <<customers, processed, env, nreq>>

\* a handler that reports the ledger write error to the client
LedgerWriteRespFailsOnError(err, snap) ==
  IF err # "" THEN internalServerError("Failed to mark session as processed")
  ELSE SyncSuccessResp(snap)

\* the answer after CreateProcessedSession: its error is logged as a warning
\* and the answer is the success response all the same
LedgerWriteResp(err, snap) == SyncSuccessResp(snap)

\* CreateProcessedSession
SyncLedger(p) ==
  /\ slots[p].pc = "ledger"
  /\ \E fault \in BOOLEAN :
       LET res == CreateProcessedSession(processed, slots[p].session, slots[p].user, fault)
       IN /\ processed' = res.tbl
          /\ slots' = [slots EXCEPT ![p] =
               Upd(slots[p], [pc |-> "done", resp |-> LedgerWriteResp(res.err, slots[p].snap),
                              cust |-> NoCustomer, sub |-> NoSubscription,
                              ledger |-> IF res.err = "" THEN "ok"
                                         ELSE IF fault THEN "fault" ELSE "conflict"])]
  /\ UNCHANGED <<customers, subscriptions, env, nreq>>

-----------------------------------------------------------------------------
(* api.CreateCheckoutSession *)

\* customer.New: the provider issues an id it has never issued; the k-th
\* Customer row that a checkout stores carries the k-th of these
NewStripeCustomerIDs == <<"cus_n1", "cus_n2", "cus_n3", "cus_n4", "cus_n5", "cus_n6">>
NewStripeCustomerID(tbl) == NewStripeCustomerIDs[NewID(tbl)]

CheckoutOK == Upd(NoResp, [code |-> 200, message |-> "session_id, url"])

\* a request without price_id, success_url or cancel_url is answered 400
\* before anything is read
StartCheckout(p) ==
  /\ \E u \in Users, valid \in BOOLEAN :
       IF valid
       THEN Begin(p, [op |-> "checkout", user |-> u, pc |-> "ck_findcust"])
       ELSE Begin(p, [op |-> "checkout", user |-> u, pc |-> "done",
                      resp |-> badRequestError("price_id is required")])
  /\ UNCHANGED db

\* FindCustomerByUserID; with a row, session.New and the answer
CheckoutFindCustomer(p) ==
  /\ slots[p].pc = "ck_findcust"
  /\ \E c \in FindCustomerByUserID(customers, slots[p].user) :
       \E providerFails \in BOOLEAN :
         IF c = NoCustomer
         THEN Put(p, [pc |-> "ck_create"])
         ELSE IF providerFails
         THEN Finish(p, internalServerError("Failed to create checkout session"))
         ELSE Finish(p, CheckoutOK)
  /\ UNCHANGED <<db, env, nreq>>

\* customer.New, CreateCustomer, session.New
CheckoutCreateCustomer(p) ==
  /\ slots[p].pc = "ck_create"
  /\ \E fault \in {"none", "customer.New", "storage", "session.New"} :
       LET res == CreateCustomer(customers, slots[p].user, NewStripeCustomerID(customers))
       IN IF fault = "customer.New" \/ fault = "storage" \/ res.err
          THEN /\ Finish(p, internalServerError("Failed to create customer"))
               /\ UNCHANGED customers
          ELSE /\ customers' = res.tbl
               /\ IF fault = "session.New"
                  THEN Finish(p, internalServerError("Failed to create checkout session"))
                  ELSE Finish(p, CheckoutOK)
  /\ UNCHANGED <<subscriptions, processed, env, nreq>>

-----------------------------------------------------------------------------
(* api.HandleWebhook *)

\* The events the provider sends about its sessions and subscriptions.  A
\* customer.subscription.deleted event carries the canceled subscription
\* (status canceled, canceled_at set); an updated event carries a later state
\* of the subscription, which may be scheduled for cancellation while active.
SubEventStates ==
  { [type |-> "customer.subscription.updated", status |-> "past_due",
     current_period_end |-> 300, canceled_at |-> 0],
    [type |-> "customer.subscription.updated", status |-> "active",
     current_period_end |-> 300, canceled_at |-> 140],
    [type |-> "customer.subscription.deleted", status |-> "canceled",
     current_period_end |-> 300, canceled_at |-> 140] }

Events ==
  { Upd(NoEvent, [type |-> "checkout.session.completed", sig_ok |-> TRUE, session |-> s])
      : s \in SessionIDs }
  \cup
  { Upd(NoEvent, [type |-> e.type, sig_ok |-> TRUE, sub |-> x.id, status |-> e.status,
                  current_period_end |-> e.current_period_end,
                  canceled_at |-> e.canceled_at])
      : e \in SubEventStates, x \in stripe.subs }
  \cup
  { Upd(NoEvent, [type |-> "customer.subscription.deleted", sig_ok |-> FALSE, sub |-> "sub_1",
                  status |-> "canceled", current_period_end |-> 300, canceled_at |-> 140]) }

WebhookOK == Upd(NoResp, [code |-> 200, message |-> "status: success"])

\* http.Error(w, "Internal Server Error", 500) of the recoverer middleware
PanicResp == ErrorResp(500, "Internal Server Error")

\* a receiver that takes every payload for signed
SignatureVerifiesAlways(e) == TRUE

\* webhook.ConstructEvent: the payload carries a signature made with the
\* configured secret
SignatureVerifies(e) == e.sig_ok

\* webhook.ConstructEvent and the switch on event.Type; a checkout session
\* without subscription makes handleCheckoutSessionCompleted dereference nil
StartWebhook(p) ==
  /\ \E e \in Events :
       IF ~SignatureVerifies(e)
       THEN Begin(p, [op |-> "webhook", ev |-> e, pc |-> "done",
                      resp |-> badRequestError("Failed to verify signature")])
       ELSE IF e.type = "checkout.session.completed"
       THEN IF stripe.sessions[e.session].subscription = ""
            THEN Begin(p, [op |-> "webhook", ev |-> e, pc |-> "done", resp |-> PanicResp])
            ELSE Begin(p, [op |-> "webhook", ev |-> e, pc |-> "wc_findcust",
                           scust |-> stripe.sessions[e.session].customer])
       ELSE Begin(p, [op |-> "webhook", ev |-> e, pc |-> "ws_findsub",
                      scust |-> StripeSub(e.sub).customer])
  /\ UNCHANGED db

\* handleCheckoutSessionCompleted: the subscription it merges is built in
\* place: active, one month from now, price_123
MockSubscription(session) ==
  [stripe_id |-> stripe.sessions[session].subscription, status |-> "active",
   price_id |-> "price_123", current_period_end |-> TimeUnix(NowPlusOneMonthUnix)]

\* FindCustomerByStripeID
HookCheckoutFindCustomer(p) ==
  /\ slots[p].pc = "wc_findcust"
  /\ \E c \in FindCustomerByStripeID(customers, slots[p].scust) :
       IF c = NoCustomer
       THEN Finish(p, internalServerError("Failed to handle checkout session"))
       ELSE Put(p, [pc |-> "wc_findsub", cust |-> c,
                    snap |-> MockSubscription(slots[p].ev.session)])
  /\ UNCHANGED <<db, env, nreq>>

\* FindSubscriptionByStripeID
HookCheckoutFindSubscription(p) ==
  /\ slots[p].pc = "wc_findsub"
  /\ \E s \in FindSubscriptionByStripeID(subscriptions, slots[p].snap.stripe_id) :
       Put(p, [pc |-> IF s = NoSubscription THEN "wc_create" ELSE "wc_update", sub |-> s])
  /\ UNCHANGED <<db, env, nreq>>

\* existingSub.Status, existingSub.CurrentPeriodEnd; UpdateSubscription
HookCheckoutImage(row, snap) ==
  [row EXCEPT !.status = snap.status, !.current_period_end = snap.current_period_end]

HookCheckoutUpdate(p) ==
  /\ slots[p].pc = "wc_update"
  /\ \E fault \in BOOLEAN :
       IF fault
       THEN /\ Finish(p, internalServerError("Failed to handle checkout session"))
            /\ UNCHANGED subscriptions
       ELSE /\ subscriptions' =
                 UpdateSubscription(subscriptions, HookCheckoutImage(slots[p].sub, slots[p].snap))
            /\ Finish(p, WebhookOK)
  /\ UNCHANGED <<customers, processed, env, nreq>>

HookCheckoutCreate(p) ==
  /\ slots[p].pc = "wc_create"
  /\ \E fault \in BOOLEAN :
       LET snap == slots[p].snap
           res == CreateSubscription(subscriptions, slots[p].cust.id, snap.stripe_id,
                                     snap.price_id, snap.status, snap.current_period_end)
       IN IF fault \/ res.err
          THEN /\ Finish(p, internalServerError("Failed to handle checkout session"))
               /\ UNCHANGED subscriptions
          ELSE /\ subscriptions' = res.tbl
               /\ Finish(p, WebhookOK)
  /\ UNCHANGED <<customers, processed, env, nreq>>

\* handleSubscriptionUpdated: FindSubscriptionByStripeID
HookSubFind(p) ==
  /\ slots[p].pc = "ws_findsub"
  /\ \E s \in FindSubscriptionByStripeID(subscriptions, slots[p].ev.sub) :
       Put(p, [pc |-> IF s = NoSubscription THEN "ws_findcust" ELSE "ws_update", sub |-> s])
  /\ UNCHANGED <<db, env, nreq>>

\* FindCustomerByStripeID(sub.Customer.ID)
HookSubFindCustomer(p) ==
  /\ slots[p].pc = "ws_findcust"
  /\ \E c \in FindCustomerByStripeID(customers, slots[p].scust) :
       IF c = NoCustomer
       THEN Finish(p, internalServerError("Failed to handle subscription"))
       ELSE Put(p, [pc |-> "ws_create", cust |-> c])
  /\ UNCHANGED <<db, env, nreq>>

\* CreateSubscription with sub.Items.Data[0].Price.ID, which panics on a
\* subscription without items
HookSubCreate(p) ==
  /\ slots[p].pc = "ws_create"
  /\ \E fault \in BOOLEAN :
       LET e == slots[p].ev
           items == StripeSub(e.sub).items
           res == CreateSubscription(subscriptions, slots[p].cust.id, e.sub,
                                     IF Len(items) > 0 THEN items[1] ELSE "",
                                     e.status, TimeUnix(e.current_period_end))
       IN IF Len(items) = 0
          THEN /\ Finish(p, PanicResp)
               /\ UNCHANGED subscriptions
          ELSE IF fault \/ res.err
          THEN /\ Finish(p, internalServerError("Failed to handle subscription"))
               /\ UNCHANGED subscriptions
          ELSE /\ subscriptions' = res.tbl
               /\ Finish(p, WebhookOK)
  /\ UNCHANGED <<customers, processed, env, nreq>>

\* an update branch that never writes canceled-at
HookSubImageKeepsCanceledAt(row, e) ==
  [row EXCEPT !.status = e.status,
              !.current_period_end = TimeUnix(e.current_period_end)]

\* the row image the update branch writes: status and period end of the
\* event, canceled-at only when the event carries one
HookSubImage(row, e) ==
  [row EXCEPT !.status = e.status,
              !.current_period_end = TimeUnix(e.current_period_end),
              !.canceled_at = IF e.canceled_at > 0 THEN TimeUnix(e.canceled_at) ELSE @]

HookSubUpdate(p) ==
  /\ slots[p].pc = "ws_update"
  /\ \E fault \in BOOLEAN :
       IF fault
       THEN /\ Finish(p, internalServerError("Failed to handle subscription"))
            /\ UNCHANGED subscriptions
       ELSE /\ subscriptions' =
                 UpdateSubscription(subscriptions, HookSubImage(slots[p].sub, slots[p].ev))
            /\ Finish(p, WebhookOK)
  /\ UNCHANGED <<customers, processed, env, nreq>>

-----------------------------------------------------------------------------
(* api.CancelSubscription *)

notFoundError(msg) == ErrorResp(404, msg)

CancelOK == Upd(NoResp, [code |-> 200, message |-> "status: canceled"])

StartCancel(p) ==
  /\ \E u \in Users : Begin(p, [op |-> "cancel", user |-> u, pc |-> "cx_findcust"])
  /\ UNCHANGED db

\* FindCustomerByUserID
CancelFindCustomer(p) ==
  /\ slots[p].pc = "cx_findcust"
  /\ \E fault \in BOOLEAN :
       \E c \in FindCustomerByUserID(customers, slots[p].user) :
         IF fault
         THEN Finish(p, internalServerError("Failed to get customer"))
         ELSE IF c = NoCustomer
         THEN Finish(p, notFoundError("Customer not found"))
         ELSE Put(p, [pc |-> "cx_findsub", cust |-> c])
  /\ UNCHANGED <<db, env, nreq>>

\* FindActiveSubscriptionByCustomerID.  The provider's cancel call that
\* would follow is commented out and err is nil at its check, so the handler
\* goes straight on to the local update.
CancelFindSubscription(p) ==
  /\ slots[p].pc = "cx_findsub"
  /\ \E fault \in BOOLEAN :
       \E s \in FindActiveSubscriptionByCustomerID(subscriptions, slots[p].cust.id) :
         IF fault
         THEN Finish(p, internalServerError("Failed to get subscription"))
         ELSE IF s = NoSubscription
         THEN Finish(p, notFoundError("Subscription not found"))
         ELSE Put(p, [pc |-> "cx_update", sub |-> s])
  /\ UNCHANGED <<db, env, nreq>>

\* a cancellation that does not stamp canceled-at
CancelImageStatusOnly(row) == [row EXCEPT !.status = SubscriptionStatusCanceled]

\* the row image the handler writes: canceled, canceled-at now
CancelImage(row) ==
  [row EXCEPT !.status = SubscriptionStatusCanceled, !.canceled_at = Now]

\* UpdateSubscription.  The canceled row's provider id stays in the request
\* record after the answer.
CancelUpdate(p) ==
  /\ slots[p].pc = "cx_update"
  /\ \E fault \in BOOLEAN :
       IF fault
       THEN /\ Finish(p, internalServerError("Failed to update subscription"))
            /\ UNCHANGED subscriptions
       ELSE /\ subscriptions' = UpdateSubscription(subscriptions, CancelImage(slots[p].sub))
            /\ Put(p, [pc |-> "done", resp |-> CancelOK, cust |-> NoCustomer,
                       sub |-> NoSubscription, scust |-> slots[p].sub.stripe_id])
  /\ UNCHANGED <<customers, processed, env, nreq>>

-----------------------------------------------------------------------------
(* api.GetSubscriptionStatus *)

NoSubscriptionStatus == Upd(NoResp, [code |-> 200, has_subscription |-> FALSE])

SubscriptionStatusOf(sub) ==
  Upd(NoResp, [code |-> 200, has_subscription |-> TRUE,
               subscription_status |-> sub.status,
               current_period_end |-> sub.current_period_end])

StartGetStatus(p) ==
  /\ \E u \in Users : Begin(p, [op |-> "get_status", user |-> u, pc |-> "gs_findcust"])
  /\ UNCHANGED db

\* FindCustomerByUserID
GetStatusFindCustomer(p) ==
  /\ slots[p].pc = "gs_findcust"
  /\ \E fault \in BOOLEAN :
       \E c \in FindCustomerByUserID(customers, slots[p].user) :
         IF fault
         THEN Finish(p, internalServerError("Failed to get customer"))
         ELSE IF c = NoCustomer
         THEN Finish(p, NoSubscriptionStatus)
         ELSE Put(p, [pc |-> "gs_findsub", cust |-> c])
  /\ UNCHANGED <<db, env, nreq>>

\* FindActiveSubscriptionByCustomerID
GetStatusFindSubscription(p) ==
  /\ slots[p].pc = "gs_findsub"
  /\ \E fault \in BOOLEAN :
       \E s \in FindActiveSubscriptionByCustomerID(subscriptions, slots[p].cust.id) :
         IF fault
         THEN Finish(p, internalServerError("Failed to get subscription"))
         ELSE IF s = NoSubscription
         THEN Finish(p, NoSubscriptionStatus)
         ELSE Finish(p, SubscriptionStatusOf(s))
  /\ UNCHANGED <<db, env, nreq>>

-----------------------------------------------------------------------------
(* Specifications *)

\* checkout, both syncs and the webhook receiver, requests in parallel
Next ==
  \E p \in Procs :
    \/ nreq < MaxReqs /\ StartSyncSession(p)
    \/ nreq < MaxReqs /\ StartSyncCustomer(p)
    \/ nreq < MaxReqs /\ StartCheckout(p)
    \/ nreq < MaxReqs /\ StartWebhook(p)
    \/ SyncLookup(p)
    \/ SyncShortCustomer(p)
    \/ SyncShortSubscription(p)
    \/ SyncFetch(p)
    \/ SyncCreateCustomer(p)
    \/ SyncCustomerFind(p)
    \/ MergeFind(p)
    \/ MergeUpdate(p)
    \/ MergeCreate(p)
    \/ SyncLedger(p)
    \/ CheckoutFindCustomer(p)
    \/ CheckoutCreateCustomer(p)
    \/ HookCheckoutFindCustomer(p)
    \/ HookCheckoutFindSubscription(p)
    \/ HookCheckoutUpdate(p)
    \/ HookCheckoutCreate(p)
    \/ HookSubFind(p)
    \/ HookSubFindCustomer(p)
    \/ HookSubCreate(p)
    \/ HookSubUpdate(p)

Spec == Init /\ [][Next]_vars

\* the sync endpoint alone, requests in parallel
NextSync ==
  \E p \in Procs :
    \/ nreq < MaxSyncReqs /\ StartSyncSession(p)
    \/ nreq < MaxSyncReqs /\ StartSyncCustomer(p)
    \/ SyncLookup(p)
    \/ SyncShortCustomer(p)
    \/ SyncShortSubscription(p)
    \/ SyncFetch(p)
    \/ SyncCreateCustomer(p)
    \/ SyncCustomerFind(p)
    \/ MergeFind(p)
    \/ MergeUpdate(p)
    \/ MergeCreate(p)
    \/ SyncLedger(p)

SpecSync == Init /\ [][NextSync]_vars

\* every endpoint, one request at a time
NextSeq ==
  \E p \in Procs :
    \/ nreq < MaxSeqReqs /\ StartSyncSession(p)
    \/ nreq < MaxSeqReqs /\ StartSyncCustomer(p)
    \/ nreq < MaxSeqReqs /\ StartCheckout(p)
    \/ nreq < MaxSeqReqs /\ StartWebhook(p)
    \/ nreq < MaxSeqReqs /\ StartCancel(p)
    \/ nreq < MaxSeqReqs /\ StartGetStatus(p)
    \/ SyncLookup(p)
    \/ SyncShortCustomer(p)
    \/ SyncShortSubscription(p)
    \/ SyncFetch(p)
    \/ SyncCreateCustomer(p)
    \/ SyncCustomerFind(p)
    \/ MergeFind(p)
    \/ MergeUpdate(p)
    \/ MergeCreate(p)
    \/ SyncLedger(p)
    \/ CheckoutFindCustomer(p)
    \/ CheckoutCreateCustomer(p)
    \/ HookCheckoutFindCustomer(p)
    \/ HookCheckoutFindSubscription(p)
    \/ HookCheckoutUpdate(p)
    \/ HookCheckoutCreate(p)
    \/ HookSubFind(p)
    \/ HookSubFindCustomer(p)
    \/ HookSubCreate(p)
    \/ HookSubUpdate(p)
    \/ CancelFindCustomer(p)
    \/ CancelFindSubscription(p)
    \/ CancelUpdate(p)
    \/ GetStatusFindCustomer(p)
    \/ GetStatusFindSubscription(p)

SpecSeq == InitSeq /\ [][NextSeq]_vars

\* the life of a subscription row: syncs, cancellation and the provider's
\* subscription events, one request at a time
NextLife ==
  \E p \in Procs :
    \/ nreq < MaxLifeReqs /\ StartSyncSession(p)
    \/ nreq < MaxLifeReqs /\ StartSyncCustomer(p)
    \/ nreq < MaxLifeReqs /\ StartWebhook(p)
    \/ nreq < MaxLifeReqs /\ StartCancel(p)
    \/ nreq < MaxLifeReqs /\ StartGetStatus(p)
    \/ SyncLookup(p)
    \/ SyncShortCustomer(p)
    \/ SyncShortSubscription(p)
    \/ SyncFetch(p)
    \/ SyncCreateCustomer(p)
    \/ SyncCustomerFind(p)
    \/ MergeFind(p)
    \/ MergeUpdate(p)
    \/ MergeCreate(p)
    \/ SyncLedger(p)
    \/ HookCheckoutFindCustomer(p)
    \/ HookCheckoutFindSubscription(p)
    \/ HookCheckoutUpdate(p)
    \/ HookCheckoutCreate(p)
    \/ HookSubFind(p)
    \/ HookSubFindCustomer(p)
    \/ HookSubCreate(p)
    \/ HookSubUpdate(p)
    \/ CancelFindCustomer(p)
    \/ CancelFindSubscription(p)
    \/ CancelUpdate(p)
    \/ GetStatusFindCustomer(p)
    \/ GetStatusFindSubscription(p)

SpecLife == InitSeq /\ [][NextLife]_vars

\* the requests that write the Subscription row of sub_1: the session sync of
\* u1 on cs_1, a cancellation by u1, a signed subscription event for sub_1
StartRaceSync(p) ==
  /\ Begin(p, [op |-> "sync_session", user |-> "u1", session |-> "cs_1", pc |-> "lookup"])
  /\ UNCHANGED db

StartRaceCancel(p) ==
  /\ Begin(p, [op |-> "cancel", user |-> "u1", pc |-> "cx_findcust"])
  /\ UNCHANGED db

StartRaceWebhook(p) ==
  /\ \E e \in Events :
       /\ SignatureVerifies(e)
       /\ e.type # "checkout.session.completed"
       /\ e.sub = "sub_1"
       /\ Begin(p, [op |-> "webhook", ev |-> e, pc |-> "ws_findsub",
                    scust |-> StripeSub(e.sub).customer])
  /\ UNCHANGED db

\* writers of one Subscription row, requests in parallel
NextRace ==
  \E p \in Procs :
    \/ nreq < MaxRaceReqs /\ StartRaceSync(p)
    \/ nreq < MaxRaceReqs /\ StartRaceCancel(p)
    \/ nreq < MaxRaceReqs /\ StartRaceWebhook(p)
    \/ SyncLookup(p)
    \/ SyncShortCustomer(p)
    \/ SyncShortSubscription(p)
    \/ SyncFetch(p)
    \/ SyncCreateCustomer(p)
    \/ MergeFind(p)
    \/ MergeUpdate(p)
    \/ MergeCreate(p)
    \/ SyncLedger(p)
    \/ HookSubFind(p)
    \/ HookSubFindCustomer(p)
    \/ HookSubCreate(p)
    \/ HookSubUpdate(p)
    \/ CancelFindCustomer(p)
    \/ CancelFindSubscription(p)
    \/ CancelUpdate(p)

SpecRace == Init /\ [][NextRace]_vars

\* a customer-scoped sync of u1 that arrives when no request is in flight,
\* after which requests come one at a time
StartSettlingSync(p) ==
  /\ mode = "conc" /\ Quiet /\ p = NextSlot
  /\ slots' = [slots EXCEPT ![p] =
                 Upd(Idle, [op |-> "sync_customer", user |-> "u1", pc |-> "cs_findcust"])]
  /\ nreq' = nreq + 1
  /\ mode' = "seq"
  /\ pre' = db
  /\ UNCHANGED <<db, stripe>>

\* a status request of u1 that arrives when no request is in flight, after
\* which requests come one at a time
StartSettlingStatus(p) ==
  /\ mode = "conc" /\ Quiet /\ p = NextSlot
  /\ slots' = [slots EXCEPT ![p] =
                 Upd(Idle, [op |-> "get_status", user |-> "u1", pc |-> "gs_findcust"])]
  /\ nreq' = nreq + 1
  /\ mode' = "seq"
  /\ pre' = db
  /\ UNCHANGED <<db, stripe>>

\* writers of one Subscription row in parallel, then a customer-scoped sync
\* or a status request on its own
NextSettle ==
  \E p \in Procs :
    \/ nreq < MaxSettleReqs /\ StartRaceSync(p)
    \/ nreq < MaxSettleReqs /\ StartRaceWebhook(p)
    \/ nreq < MaxSettleReqs /\ StartSettlingSync(p)
    \/ nreq < MaxSettleReqs /\ StartSettlingStatus(p)
    \/ SyncLookup(p)
    \/ SyncShortCustomer(p)
    \/ SyncShortSubscription(p)
    \/ SyncFetch(p)
    \/ SyncCreateCustomer(p)
    \/ SyncCustomerFind(p)
    \/ MergeFind(p)
    \/ MergeUpdate(p)
    \/ MergeCreate(p)
    \/ SyncLedger(p)
    \/ HookSubFind(p)
    \/ HookSubFindCustomer(p)
    \/ HookSubCreate(p)
    \/ HookSubUpdate(p)
    \/ GetStatusFindCustomer(p)
    \/ GetStatusFindSubscription(p)

SpecSettle == Init /\ [][NextSettle]_vars

-----------------------------------------------------------------------------
(* Properties *)

Last == slots[LastSlot]
Prev == slots[IF LastSlot = "p1" THEN "p2" ELSE "p1"]

LedgerRows(sessionID) == {r \in processed : r.session_id = sessionID}

\* a session-scoped sync that fetched, merged and answered success
MergedSync(r) ==
  /\ r.pc = "done" /\ r.op = "sync_session"
  /\ r.resp.success /\ ~r.resp.already_processed

\* C1: a user who runs session-scoped sync of one session twice in a row,
\* nothing in between, gets the same subscription result (has_subscription,
\* status, period end) both times, and one ledger row for the session exists
\* afterwards.  Stated for a first call that succeeded and recorded the
\* session, and a second call that met no provider or storage failure.
C1_SyncTwiceSameResult ==
  ( /\ mode = "seq" /\ Quiet
    /\ MergedSync(Prev) /\ Prev.ledger = "ok"
    /\ Last.pc = "done" /\ Last.op = "sync_session" /\ Last.resp.code = 200
    /\ Last.user = Prev.user /\ Last.session = Prev.session )
  => /\ Last.resp.has_subscription = Prev.resp.has_subscription
     /\ Last.resp.subscription_status = Prev.resp.subscription_status
     /\ Last.resp.current_period_end = Prev.resp.current_period_end
     /\ Cardinality(LedgerRows(Last.session)) = 1

\* a request whose ledger write was attempted and met no storage fault
WroteLedger(r) ==
  /\ r.pc = "done" /\ r.op = "sync_session" /\ r.ledger \in {"ok", "conflict"}

\* C2: two session-scoped syncs of one unseen session that race (both looked
\* the session up before either recorded it, both merged and both attempted
\* the ledger write) both answer success with the same status and period end;
\* exactly one of the two writes succeeded, the other one's conflict is not
\* reported, and the ledger holds exactly one row for the session.
C2_RacingFirstSyncs ==
  \A p, q \in Procs :
    ( /\ p # q /\ WroteLedger(slots[p]) /\ WroteLedger(slots[q])
      /\ slots[p].session = slots[q].session )
    => /\ slots[p].resp.code = 200 /\ slots[p].resp.success
       /\ slots[q].resp.code = 200 /\ slots[q].resp.success
       /\ slots[p].resp.subscription_status = slots[q].resp.subscription_status
       /\ slots[p].resp.current_period_end = slots[q].resp.current_period_end
       /\ slots[p].resp.has_subscription /\ slots[q].resp.has_subscription
       /\ (slots[p].ledger = "ok") # (slots[q].ledger = "ok")
       /\ Cardinality(LedgerRows(slots[p].session)) = 1

C2_Witness ==
  /\ WroteLedger(slots["p1"]) /\ WroteLedger(slots["p2"])
  /\ slots["p1"].session = slots["p2"].session
  /\ slots["p1"].user # slots["p2"].user
  /\ slots["p2"].ledger = "conflict"

\* the step of request p that looks session s up while the ledger holds s
\* for another user
LookupOfForeignSession(p) ==
  /\ slots[p].pc = "lookup"
  /\ \E r \in processed : r.session_id = slots[p].session /\ r.user_id # slots[p].user
  /\ slots'[p] # slots[p]

Rejected(p) ==
  /\ slots'[p].pc = "done"
  /\ slots'[p].resp = ForbiddenResp
  /\ db' = db

\* C3 as stated: a sync of a session that the ledger holds for another
\* user is always refused (403, the same answer whoever the other user is),
\* at the lookup, before any provider call, with no row changed.
C3_ForeignSessionRejected ==
  [][\A p \in Procs : LookupOfForeignSession(p) => Rejected(p)]_vars

\* C3 as amended: it is refused in that way whenever the ledger lookup
\* returns the row; when the lookup fails with a storage error the request
\* goes on to the provider as if the session were unseen (and will not record
\* it).
C3_ForeignSessionRejectedUnlessLookupFails ==
  [][\A p \in Procs :
       LookupOfForeignSession(p) =>
         \/ Rejected(p)
         \/ /\ slots'[p].pc = "fetch" /\ ~slots'[p].newly
            /\ db' = db]_vars

C3_Witness ==
  \E p \in Procs :
    /\ slots[p].pc = "done" /\ slots[p].op = "sync_session"
    /\ slots[p].resp = ForbiddenResp
    /\ \E r \in processed : r.session_id = slots[p].session /\ r.user_id # slots[p].user

\* C4: the ledger never holds two rows for one session id; recording a
\* session id that has a row is refused with an error that is not the
\* lookup's "no rows", and leaves the table as it was, also for the request
\* that lost the race between its lookup and its insert.
C4_LedgerUniquePerSession ==
  /\ \A r1, r2 \in processed : r1.session_id = r2.session_id => r1 = r2
  /\ \A s \in SessionIDs, u \in Users :
       LedgerRows(s) # {} =>
         LET res == CreateProcessedSession(processed, s, u, FALSE)
         IN res.err # "" /\ res.err # ErrNoRows /\ res.tbl = processed
  /\ \A p \in Procs :
       slots[p].ledger = "conflict" =>
         \E r \in LedgerRows(slots[p].session) : TRUE

C4_Witness ==
  \E p, q \in Procs :
    /\ slots[p].ledger = "conflict" /\ slots[q].ledger = "ok"
    /\ slots[p].session = slots[q].session
    /\ Cardinality(LedgerRows(slots[p].session)) = 1

\* C5: no two Customer rows carry the same internal user id, and no two carry
\* the same provider customer id, whatever the interleaving of checkout and
\* sync requests.
C5_CustomerUnique ==
  \A c1, c2 \in customers :
    (c1.user_id = c2.user_id \/ c1.stripe_id = c2.stripe_id) => c1 = c2

\* C6: no two Subscription rows carry the same provider subscription id,
\* whatever the interleaving of syncs and webhook handlers.
C6_SubscriptionUnique ==
  \A s1, s2 \in subscriptions : s1.stripe_id = s2.stripe_id => s1 = s2

SubscriptionRows(stripeID) == {s \in subscriptions : s.stripe_id = stripeID}

\* a sync, of either kind, that ran the create-or-update merge and answered
\* with the merged snapshot
Merged(r) ==
  /\ r.pc = "done" /\ r.op \in {"sync_session", "sync_customer"}
  /\ r.resp.code = 200 /\ r.resp.success /\ ~r.resp.already_processed
  /\ r.snap # NoSnap

\* C7: when two merges of the same provider snapshot run one after the
\* other, the second leaves exactly one Subscription row for the snapshot's
\* subscription id, with the snapshot's status, price id and period end, and
\* the Subscription table is what the first merge left.
C7_MergeIdempotent ==
  ( /\ mode = "seq" /\ Quiet
    /\ Merged(Prev) /\ Merged(Last) /\ Prev.snap = Last.snap )
  => /\ Cardinality(SubscriptionRows(Last.snap.stripe_id)) = 1
     /\ \A s \in SubscriptionRows(Last.snap.stripe_id) :
          /\ s.status = Last.snap.status
          /\ s.price_id = Last.snap.price_id
          /\ s.current_period_end = Last.snap.current_period_end
     /\ subscriptions = pre[2]

C7_Witness ==
  /\ mode = "seq" /\ Quiet
  /\ Merged(Prev) /\ Merged(Last) /\ Prev.snap = Last.snap
  /\ Prev.op = "sync_session" /\ Last.op = "sync_customer"
  /\ Cardinality(SubscriptionRows(Last.snap.stripe_id)) = 1

\* the latest request is a session-scoped sync that succeeded and recorded
\* its session, started where its user had no Customer row and neither the
\* session nor its provider subscription was known
FirstSync ==
  /\ mode = "seq" /\ Quiet
  /\ MergedSync(Last) /\ Last.resp.code = 200 /\ Last.ledger = "ok"
  /\ \A c \in pre[1] : c.user_id # Last.user
  /\ \A r \in pre[3] : r.session_id # Last.session
  /\ \A s \in pre[2] : s.stripe_id # stripe.sessions[Last.session].subscription

\* C8: such a sync adds one Customer row (the user, the session's provider
\* customer), one Subscription row of that customer (the provider's
\* subscription id, status and period end, and the price of its first item,
\* the default price when it has none) and one ledger row (the session, the
\* user); every other row is as it was.
C8_FirstSyncCreatesOneOfEach ==
  FirstSync =>
    LET sess == stripe.sessions[Last.session]
        sub == StripeSub(sess.subscription)
        newC == customers \ pre[1]
        newS == subscriptions \ pre[2]
        newP == processed \ pre[3]
    IN /\ pre[1] \subseteq customers /\ Cardinality(newC) = 1
       /\ pre[2] \subseteq subscriptions /\ Cardinality(newS) = 1
       /\ pre[3] \subseteq processed /\ Cardinality(newP) = 1
       /\ \A c \in newC : c.user_id = Last.user /\ c.stripe_id = sess.customer
       /\ \A s \in newS :
            /\ s.stripe_id = sub.id
            /\ s.status = sub.status
            /\ s.current_period_end = [sec |-> sub.current_period_end, nsec |-> 0]
            /\ s.price_id = IF sub.items # <<>> THEN sub.items[1] ELSE DefaultPriceID
            /\ s.canceled_at = NullTime
            /\ \A c \in newC : s.customer_id = c.id
       /\ \A r \in newP : r.session_id = Last.session /\ r.user_id = Last.user

C8_Witness ==
  /\ FirstSync
  /\ pre[1] # {} /\ pre[2] # {} /\ pre[3] # {}
  /\ Cardinality(customers) = 2 /\ Cardinality(subscriptions) = 2

\* C9: a session-scoped sync of a session that the ledger held for the
\* requesting user, and that took the short-circuit, changes no row and
\* answers with the state (status, period end) of a Subscription row of the
\* user's customer.
C9_ShortCircuitReturnsState ==
  ( /\ mode = "seq" /\ Quiet
    /\ Last.pc = "done" /\ Last.op = "sync_session"
    /\ Last.resp.code = 200 /\ Last.resp.already_processed
    /\ \E r \in pre[3] : r.session_id = Last.session /\ r.user_id = Last.user
    /\ \E c \in customers, s \in subscriptions :
         c.user_id = Last.user /\ s.customer_id = c.id )
  => /\ db = pre
     /\ Last.resp.has_subscription
     /\ \E c \in customers, s \in subscriptions :
          /\ c.user_id = Last.user /\ s.customer_id = c.id
          /\ Last.resp.subscription_status = s.status
          /\ Last.resp.current_period_end = s.current_period_end

IsDeleted(p) ==
  slots[p].op = "webhook" /\ slots[p].ev.type = "customer.subscription.deleted"

\* C10: the step in which the handler of a customer.subscription.deleted
\* event stores its update of the row it found for the event's subscription
\* leaves that row with status canceled and canceled-at set; no step of such
\* a handler removes a Subscription row or changes the Customer table.
C10_DeletedWebhookCancels ==
  [][\A p \in Procs :
       (IsDeleted(p) /\ slots'[p] # slots[p]) =>
         /\ customers' = customers
         /\ \A s \in subscriptions : \E t \in subscriptions' : t.id = s.id
         /\ (slots[p].pc = "ws_update" /\ slots'[p].resp = WebhookOK) =>
              \E t \in subscriptions' :
                /\ t.id = slots[p].sub.id
                /\ t.stripe_id = slots[p].ev.sub
                /\ t.status = SubscriptionStatusCanceled
                /\ t.canceled_at # NullTime]_vars

C10_Witness ==
  \E p \in Procs :
    /\ IsDeleted(p) /\ slots[p].pc = "done" /\ slots[p].resp = WebhookOK
    /\ \E t \in subscriptions :
         /\ t.stripe_id = slots[p].ev.sub
         /\ t.status = SubscriptionStatusCanceled
         /\ t.canceled_at = TimeUnix(slots[p].ev.canceled_at)
    /\ customers # {}

\* a step of the request on connection p, which is a cancellation
CancelStep(p) == slots[p].op = "cancel" /\ slots'[p] # slots[p]

\* the request ends here, with no row changed, in not-found unless the
\* storage failed (500)
EndsNotFound(p, msg) ==
  /\ slots'[p].pc = "done"
  /\ db' = db
  /\ slots'[p].resp.code \in {404, 500}
  /\ slots'[p].resp.code = 404 => slots'[p].resp.message = msg

\* C11: a cancellation whose user has no Customer row ends at the customer
\* lookup, and one whose customer has no Subscription row with status active
\* ends at the subscription lookup: the answer is 404 not found (500 when the
\* lookup itself fails) and no Customer, Subscription or ledger row changes.
C11_CancelWithoutActiveRow ==
  [][\A p \in Procs :
       CancelStep(p) =>
         /\ ( /\ slots[p].pc = "cx_findcust"
              /\ \A c \in customers : c.user_id # slots[p].user )
            => EndsNotFound(p, "Customer not found")
         /\ ( /\ slots[p].pc = "cx_findsub"
              /\ \A s \in subscriptions :
                   ~(s.customer_id = slots[p].cust.id /\ s.status = SubscriptionStatusActive) )
            => EndsNotFound(p, "Subscription not found")]_vars

C11_Witness ==
  /\ Last.op = "cancel" /\ Last.pc = "done"
  /\ Last.resp.code = 404 /\ Last.resp.message = "Subscription not found"
  /\ \E c \in customers, s \in subscriptions :
       c.user_id = Last.user /\ s.customer_id = c.id /\ s.status = "trialing"
  /\ db = pre

\* C12: a cancellation that answered "canceled", and so has set the local row
\* to canceled, had the provider cancel that subscription first.
C12_ProviderCanceledFirst ==
  \A p \in Procs :
    (slots[p].op = "cancel" /\ slots[p].pc = "done" /\ slots[p].resp = CancelOK)
    => slots[p].scust \in stripe.canceled

\* C13: a webhook request whose signature does not verify is answered 400 in
\* the step that receives it: it never enters a handler, and no Customer,
\* Subscription or ledger row changes.
C13_BadSignatureRejected ==
  [][\A p \in Procs :
       ( /\ slots'[p] # slots[p]
         /\ slots'[p].op = "webhook" /\ ~slots'[p].ev.sig_ok )
       => /\ slots'[p].pc = "done"
          /\ slots'[p].resp.code = 400
          /\ db' = db]_vars

C13_Witness ==
  \E p \in Procs :
    /\ slots[p].op = "webhook" /\ ~slots[p].ev.sig_ok
    /\ slots[p].pc = "done" /\ slots[p].resp.code = 400
    /\ \E s \in subscriptions :
         s.stripe_id = slots[p].ev.sub /\ s.status # slots[p].ev.status

\* a step of the session-scoped sync on connection p, whose session carries
\* no subscription at the provider
SyncStepWithoutSubscription(p) ==
  /\ slots[p].op = "sync_session" /\ InFlight(p)
  /\ stripe.sessions[slots[p].session].subscription = ""
  /\ slots'[p] # slots[p]

\* C14: no step of a session-scoped sync whose session carries no
\* subscription changes a row, and the step that has fetched the session
\* answers 200 with success false and "No subscription found in Stripe
\* session" (the fetch itself failing is a 500).
C14_NoSubscriptionInSession ==
  [][\A p \in Procs :
       SyncStepWithoutSubscription(p) =>
         /\ db' = db
         /\ (slots[p].pc = "fetch" /\ slots'[p].resp.code # 500) =>
              /\ slots'[p].pc = "done"
              /\ slots'[p].resp.code = 200
              /\ ~slots'[p].resp.success /\ ~slots'[p].resp.has_subscription
              /\ slots'[p].resp.message = "No subscription found in Stripe session"]_vars

C14_Witness ==
  \E p \in Procs :
    /\ slots[p].op = "sync_session" /\ slots[p].pc = "done"
    /\ slots[p].resp.message = "No subscription found in Stripe session"
    /\ LedgerRows(slots[p].session) = {}
    /\ customers # {}

\* a session-scoped sync that merged and whose ledger write failed
LedgerWriteFailed(r) == r.op = "sync_session" /\ r.pc = "done" /\ r.ledger = "fault"

\* the latest request repeats, for the same user and session, the previous
\* one, whose ledger write failed
RetryAfterLedgerFailure ==
  /\ mode = "seq" /\ Quiet
  /\ LedgerWriteFailed(Prev)
  /\ Last.op = "sync_session" /\ Last.pc = "done" /\ Last.resp.code = 200
  /\ Last.user = Prev.user /\ Last.session = Prev.session

\* C15: a session-scoped sync whose ledger write failed after the merge
\* answers success with the merged state, and the merged Subscription row is
\* there; the next sync of the session by the user merges again (it is not
\* answered as already processed) and leaves the Subscription table as it
\* was, the row carrying the snapshot.
C15_LedgerWriteFailureIsSuccess ==
  /\ \A p \in Procs :
       LedgerWriteFailed(slots[p]) =>
         /\ slots[p].resp.code = 200 /\ slots[p].resp.success
         /\ slots[p].resp.has_subscription
         /\ slots[p].resp.subscription_status = slots[p].snap.status
         /\ SubscriptionRows(slots[p].snap.stripe_id) # {}
         /\ \E c \in customers : c.user_id = slots[p].user
  /\ RetryAfterLedgerFailure =>
       /\ Merged(Last) /\ Last.snap = Prev.snap
       /\ subscriptions = pre[2] /\ customers = pre[1]
       /\ \A s \in SubscriptionRows(Last.snap.stripe_id) :
            /\ s.status = Last.snap.status
            /\ s.price_id = Last.snap.price_id
            /\ s.current_period_end = Last.snap.current_period_end
       /\ Cardinality(SubscriptionRows(Last.snap.stripe_id)) = 1

C15_Witness ==
  /\ RetryAfterLedgerFailure
  /\ Last.ledger = "ok"
  /\ Cardinality(LedgerRows(Last.session)) = 1

\* a session-scoped sync that went on to the provider after its ledger
\* lookup failed, and got the session
WentOnAfterLookupError(r) ==
  /\ r.op = "sync_session" /\ r.pc = "done"
  /\ ~r.newly /\ r.scust # ""

\* C16: the ledger lookup of a session-scoped sync never ends the request
\* with an error; after a storage error the request stands at the provider
\* fetch as after "no rows" (but for the note that the session is not to be
\* recorded), and when it then answers 200 the user's Customer row and the
\* Subscription row of the provider's snapshot are stored and reported.
C16_LookupErrorGoesOn ==
  /\ [][\A p \in Procs :
          (slots[p].pc = "lookup" /\ slots'[p] # slots[p]) =>
            /\ db' = db
            /\ slots'[p].resp.code # 500
            /\ slots'[p].pc \in {"fetch", "sc_cust", "done"}
            /\ slots'[p].pc = "done" => slots'[p].resp = ForbiddenResp
            /\ slots'[p].pc = "fetch" =>
                 \E b \in BOOLEAN :
                   slots'[p] = [slots[p] EXCEPT !.pc = "fetch", !.newly = b]]_vars
  /\ [](\A p \in Procs :
          (WentOnAfterLookupError(slots[p]) /\ slots[p].resp.code = 200) =>
            /\ slots[p].snap = Snapshot(StripeSub(stripe.sessions[slots[p].session].subscription))
            /\ slots[p].resp.success /\ slots[p].resp.has_subscription
            /\ slots[p].resp.subscription_status = slots[p].snap.status
            /\ slots[p].resp.current_period_end = slots[p].snap.current_period_end
            /\ \E c \in customers : c.user_id = slots[p].user
            /\ \E s \in SubscriptionRows(slots[p].snap.stripe_id) :
                 /\ s.status = slots[p].snap.status
                 /\ s.price_id = slots[p].snap.price_id
                 /\ s.current_period_end = slots[p].snap.current_period_end)

C16_Witness ==
  \E p \in Procs :
    /\ WentOnAfterLookupError(slots[p])
    /\ slots[p].resp.code = 200 /\ slots[p].resp.success
    /\ LedgerRows(slots[p].session) = {}
    /\ SubscriptionRows(slots[p].snap.stripe_id) # {}

\* C17: no step of a customer-scoped sync changes the ledger, however the
\* request ends.
C17_CustomerSyncLeavesLedger ==
  [][\A p \in Procs :
       (slots'[p] # slots[p] /\ (slots[p].op = "sync_customer" \/ slots'[p].op = "sync_customer"))
       => processed' = processed]_vars

C17_Witness ==
  \E p \in Procs :
    /\ slots[p].op = "sync_customer" /\ Merged(slots[p])
    /\ processed # {}

ProviderFailureMessages ==
  { "Failed to retrieve Stripe session",
    "Failed to get customer details from Stripe",
    "Failed to get customer from Stripe",
    "Failed to list subscriptions from Stripe" }

\* the latest request is a sync that met a failing provider call
SyncProviderFailed ==
  /\ mode = "seq" /\ Quiet
  /\ Last.pc = "done" /\ Last.op \in {"sync_session", "sync_customer"}
  /\ Last.resp.message \in ProviderFailureMessages

\* C18: a sync in which a provider call failed answers 500 without success,
\* and every Customer, Subscription and ledger row is as it was when the
\* request started.
C18_ProviderFailureLeavesNothing ==
  SyncProviderFailed =>
    /\ Last.resp.code = 500 /\ ~Last.resp.success
    /\ db = pre

C18_Witness ==
  /\ SyncProviderFailed
  /\ Last.resp.message = "Failed to get customer details from Stripe"
  /\ pre[1] # {} /\ db = pre

\* C19: no customer has two Subscription rows with status active.
C19_OneActivePerCustomer ==
  \A s1, s2 \in subscriptions :
    ( /\ s1.customer_id = s2.customer_id
      /\ s1.status = SubscriptionStatusActive /\ s2.status = SubscriptionStatusActive )
    => s1 = s2

\* C20: a Subscription row whose status is canceled stays, and stays
\* canceled, in every step.
C20_CanceledIsTerminal ==
  [][\A s \in subscriptions :
       s.status = SubscriptionStatusCanceled =>
         \E t \in subscriptions' : t.id = s.id /\ t.status = SubscriptionStatusCanceled]_vars

\* C21: when a request is about to create the Customer row of a user whose
\* row another request has created since this one looked, its create adds no
\* second row, and when it goes on it goes on with a stored row of the user.
C21_CustomerCreateRaceHasOneWinner ==
  [][\A p \in Procs :
       ( /\ slots[p].pc = "createcust" /\ slots'[p] # slots[p]
         /\ \E c \in customers : c.user_id = slots[p].user )
       => /\ customers' = customers
          /\ slots'[p].pc = "findsub" =>
               (slots'[p].cust \in customers /\ slots'[p].cust.user_id = slots[p].user)]_vars

\* C22: the user of every ledger row has a Customer row, and that customer
\* owns a Subscription row; no step removes or changes a ledger row.
C22_LedgerRowHasMergedState ==
  /\ [](\A r \in processed :
          \E c \in customers :
            /\ c.user_id = r.user_id
            /\ \E s \in subscriptions : s.customer_id = c.id)
  /\ [][\A r \in processed : r \in processed']_vars

\* C23: every session-scoped sync that merged and answered success has
\* attempted the ledger write, and when the write met no storage failure the
\* ledger holds a row for the session.
C23_MergedSyncRecordsSession ==
  \A p \in Procs :
    MergedSync(slots[p]) =>
      /\ slots[p].ledger # ""
      /\ slots[p].ledger \in {"ok", "conflict"} => LedgerRows(slots[p].session) # {}

\* the request on connection p handles a signed customer.subscription.updated
\* or customer.subscription.deleted event
IsSubEvent(r) ==
  /\ r.op = "webhook" /\ r.ev.sig_ok
  /\ r.ev.type \in {"customer.subscription.updated", "customer.subscription.deleted"}

\* C24: the handler of a subscription event ends only in one of two ways:
\* acknowledged, with a Subscription row for the event's subscription stored,
\* or refused because the storage failed in its create or update.
C24_SubEventUpdatesOrCreates ==
  [][\A p \in Procs :
       ( /\ IsSubEvent(slots[p]) /\ InFlight(p)
         /\ slots'[p].pc = "done" )
       => \/ /\ slots'[p].resp = WebhookOK
             /\ \E s \in subscriptions' : s.stripe_id = slots[p].ev.sub
          \/ /\ slots[p].pc \in {"ws_create", "ws_update"}
             /\ slots'[p].resp.code = 500
             /\ slots'[p].resp.message = "Failed to handle subscription"]_vars

\* the price the provider reports for a subscription: that of its first item
ReportsPrice(sub) == sub.items # <<>> /\ sub.items[1] # ""

\* the latest request reconciled provider subscription x, which had a row
ReconciledExisting(x) ==
  /\ mode = "seq" /\ Quiet /\ Last.pc = "done"
  /\ \E s \in pre[2] : s.stripe_id = x
  /\ \/ Merged(Last) /\ Last.snap.stripe_id = x
     \/ /\ Last.op = "webhook" /\ Last.resp = WebhookOK
        /\ \/ IsSubEvent(Last) /\ Last.ev.sub = x
           \/ /\ Last.ev.type = "checkout.session.completed"
              /\ stripe.sessions[Last.ev.session].subscription = x

\* C25: after a reconciliation of a subscription that had a row, the rows of
\* the subscription carry the status and period end of the provider data
\* behind the reconciliation (the event's for a subscription event, the
\* provider's subscription otherwise) and the price of its first item.
C25_ReconciledRowEqualsProvider ==
  \A x \in SubIDs :
    ReconciledExisting(x) =>
      LET sub == StripeSub(x)
          status == IF IsSubEvent(Last) THEN Last.ev.status ELSE sub.status
          periodEnd == IF IsSubEvent(Last) THEN Last.ev.current_period_end
                       ELSE sub.current_period_end
      IN \A s \in SubscriptionRows(x) :
           /\ s.status = status
           /\ s.current_period_end = [sec |-> periodEnd, nsec |-> 0]
           /\ ReportsPrice(sub) => s.price_id = sub.items[1]

\* the Subscription table a session-scoped sync leaves when it merges
\* snapshot snap for customer customerID into tbl
SyncMergeOf(tbl, customerID, snap) ==
  LET old == {s \in tbl : s.stripe_id = snap.stripe_id}
  IN IF old = {}
     THEN { tbl \cup {[id |-> Cardinality(tbl) + 1, customer_id |-> customerID,
                       stripe_id |-> snap.stripe_id, status |-> snap.status,
                       price_id |-> snap.price_id,
                       current_period_end |-> snap.current_period_end,
                       canceled_at |-> NullTime]} }
     ELSE { (tbl \ {s}) \cup {[s EXCEPT !.status = snap.status,
                                        !.price_id = snap.price_id,
                                        !.current_period_end = snap.current_period_end]}
            : s \in old }

\* C26: an acknowledged checkout.session.completed webhook leaves the
\* Customer rows as they were and the Subscription rows that a session-scoped
\* sync of the session, by the user of the session's customer, leaves from
\* the same state.
C26_CheckoutHookLikeSync ==
  ( /\ mode = "seq" /\ Quiet /\ Last.pc = "done"
    /\ Last.op = "webhook" /\ Last.ev.type = "checkout.session.completed"
    /\ Last.resp = WebhookOK )
  => LET sess == stripe.sessions[Last.ev.session]
         snap == [stripe_id |-> sess.subscription,
                  status |-> StripeSub(sess.subscription).status,
                  price_id |-> IF ReportsPrice(StripeSub(sess.subscription))
                               THEN StripeSub(sess.subscription).items[1]
                               ELSE DefaultPriceID,
                  current_period_end |->
                    [sec |-> StripeSub(sess.subscription).current_period_end, nsec |-> 0]]
     IN /\ customers = pre[1]
        /\ \E c \in pre[1] :
             /\ c.stripe_id = sess.customer
             /\ subscriptions \in SyncMergeOf(pre[2], c.id, snap)

\* C27: a merge by a sync or by a subscription event does not break off in
\* a panic, and every Subscription row it wrote carries the price of the
\* first item of the provider subscription, the default price id when there
\* is none.
C27_StoredPriceIsFirstItemOrDefault ==
  ( /\ mode = "seq" /\ Quiet /\ Last.pc = "done"
    /\ (Last.op \in {"sync_session", "sync_customer"} \/ IsSubEvent(Last)) )
  => /\ Last.resp # PanicResp
     /\ \A s \in subscriptions \ pre[2] :
          s.price_id = IF ReportsPrice(StripeSub(s.stripe_id))
                       THEN StripeSub(s.stripe_id).items[1]
                       ELSE DefaultPriceID

\* the step of the customer-scoped sync on connection p that resolves the
\* customer and asks the provider
CustomerSyncResolves(p) == slots[p].pc = "cs_findcust" /\ slots'[p] # slots[p]

\* the request ends here with success false and the message, no row changed
EndsReporting(p, msg) ==
  /\ slots'[p].pc = "done" /\ db' = db
  /\ slots'[p].resp.code = 200 /\ ~slots'[p].resp.success
  /\ ~slots'[p].resp.has_subscription
  /\ slots'[p].resp.message = msg

\* the request ends here with a 500, no row changed
EndsFailing(p) == slots'[p].pc = "done" /\ db' = db /\ slots'[p].resp.code = 500

\* C28: a customer-scoped sync whose user has no Customer row ends with
\* "Customer not found", whatever the provider would answer, unless the
\* lookup itself fails (500 "Failed to get customer"); one whose customer has
\* no subscription at the provider ends with "No subscription found for this
\* customer" unless the lookup or a provider call fails (500); no Customer,
\* Subscription or ledger row changes in either case.
C28_CustomerSyncWithoutCustomerOrSubscription ==
  [][\A p \in Procs :
       CustomerSyncResolves(p) =>
         /\ (\A c \in customers : c.user_id # slots[p].user)
            => \/ EndsReporting(p, "Customer not found")
               \/ /\ EndsFailing(p)
                  /\ slots'[p].resp.message = "Failed to get customer"
         /\ ( /\ \E c \in customers : c.user_id = slots[p].user
              /\ \A c \in customers : \A s \in stripe.subs :
                   c.user_id = slots[p].user => s.customer # c.stripe_id )
            => \/ EndsReporting(p, "No subscription found for this customer")
               \/ EndsFailing(p)]_vars

C28_Witness ==
  /\ Last.op = "sync_customer" /\ Last.pc = "done"
  /\ Last.resp.message = "No subscription found for this customer"
  /\ \E c \in customers : c.user_id = Last.user
  /\ db = pre

\* the latest request is a cancellation that answered "canceled"
Canceled ==
  /\ mode = "seq" /\ Quiet
  /\ Last.op = "cancel" /\ Last.pc = "done" /\ Last.resp = CancelOK

\* C29: a cancellation that answered "canceled" has changed one row, an
\* active Subscription row of the user's customer, and in it the status, now
\* canceled, and canceled-at, now set; every other row of the three tables
\* is as it was, and the lookup of GetSubscriptionStatus for the user does
\* not return that row.
C29_CancelChangesOneRow ==
  Canceled =>
    \E r \in pre[2] :
      /\ r.status = SubscriptionStatusActive
      /\ \E c \in pre[1] : c.user_id = Last.user /\ r.customer_id = c.id
      /\ \E t \in subscriptions :
           /\ t.id = r.id
           /\ t.status = SubscriptionStatusCanceled
           /\ t.canceled_at # NullTime
           /\ t = [r EXCEPT !.status = t.status, !.canceled_at = t.canceled_at]
           /\ subscriptions \ {t} = pre[2] \ {r}
      /\ customers = pre[1] /\ processed = pre[3]
      /\ \A c \in FindCustomerByUserID(customers, Last.user) :
           \A s \in FindActiveSubscriptionByCustomerID(subscriptions, c.id) : s.id # r.id

C29_Witness ==
  /\ Canceled
  /\ \E t \in subscriptions :
       /\ t.stripe_id = Last.scust /\ t.status = SubscriptionStatusCanceled
       /\ t.canceled_at = Now
  /\ processed # {}

\* the step in which the request on connection p commits its update of an
\* existing Subscription row
CommitsUpdate(p) ==
  /\ slots[p].pc \in {"updsub", "ws_update", "cx_update"}
  /\ slots'[p] # slots[p]
  /\ slots'[p].resp.code # 500

\* the complete row the request holds when it commits: the row as the
\* request read it, with the fields the request sets
HeldImage(r) ==
  IF r.op = "cancel"
  THEN [r.sub EXCEPT !.status = SubscriptionStatusCanceled, !.canceled_at = Now]
  ELSE IF r.op = "webhook"
  THEN [r.sub EXCEPT !.status = r.ev.status,
                     !.current_period_end = TimeUnix(r.ev.current_period_end),
                     !.canceled_at = IF r.ev.canceled_at > 0
                                     THEN TimeUnix(r.ev.canceled_at) ELSE @]
  ELSE [r.sub EXCEPT !.status = r.snap.status,
                     !.current_period_end = r.snap.current_period_end,
                     !.price_id = r.snap.price_id]

\* C30: an update of a Subscription row leaves the row equal, in every
\* field, to the image held by the request that commits it, whatever another
\* request wrote to the row since this one read it, and leaves every other
\* row alone; between two commits no existing row changes.  So the row is at
\* any time the complete image of the update that committed last.
C30_LastCommittedImageWins ==
  [][ /\ \A p \in Procs :
          CommitsUpdate(p) =>
            /\ \A s \in subscriptions' : s.id = slots[p].sub.id => s = HeldImage(slots[p])
            /\ {s \in subscriptions' : s.id # slots[p].sub.id}
                 = {s \in subscriptions : s.id # slots[p].sub.id}
      /\ (\A p \in Procs : ~CommitsUpdate(p)) => subscriptions \subseteq subscriptions' ]_vars

\* a cancellation and a sync have both answered with success, and the one row
\* of the subscription is the sync's image: active, canceled-at as the sync
\* read it before the cancellation committed
C30_Witness ==
  /\ mode = "conc"
  /\ \E p, q \in Procs :
       /\ slots[p].op = "cancel" /\ slots[p].pc = "done" /\ slots[p].resp = CancelOK
       /\ slots[q].op = "sync_session" /\ slots[q].pc = "done" /\ slots[q].resp.success
       /\ slots[q].snap.stripe_id = slots[p].scust
  /\ Cardinality(subscriptions) = 1
  /\ \A s \in subscriptions :
       s.status = SubscriptionStatusActive /\ s.canceled_at = NullTime

\* the rows one session-scoped sync without faults leaves in empty tables
\* when the session carries a subscription
SingleSyncRows(userID, sessionID) ==
  LET sess == stripe.sessions[sessionID]
      snap == Snapshot(StripeSub(sess.subscription))
      c == CreateCustomer({}, userID, sess.customer)
      s == CreateSubscription({}, c.row.id, snap.stripe_id, snap.price_id, snap.status,
                              snap.current_period_end)
      l == CreateProcessedSession({}, sessionID, userID, FALSE)
  IN <<c.tbl, s.tbl, l.tbl>>

\* the first request was a session-scoped sync that ended in a 500, the
\* second is the same user's sync of the same session and met no fault: its
\* ledger lookup answered "no rows", no call ended in a 500, the ledger write
\* was not refused
RetryAfterFailure ==
  /\ mode = "seq" /\ Quiet /\ nreq = 2
  /\ Prev.op = "sync_session" /\ Prev.resp.code = 500
  /\ Last.op = "sync_session" /\ Last.pc = "done"
  /\ Last.user = Prev.user /\ Last.session = Prev.session
  /\ Last.newly /\ Last.resp.code # 500 /\ Last.ledger # "fault"

\* C31: a session-scoped sync that fails with a 500 changes nothing but,
\* at most, adding the Customer row of its user for the session's provider
\* customer; and the retry without faults of a first sync that failed answers
\* and leaves the rows as one sync without faults does: success and one
\* Customer, one Subscription and one ledger row when the session carries a
\* subscription, "No subscription found in Stripe session" and no row when it
\* does not.
C31_FailedSyncIsSafeToRetry ==
  /\ ( /\ mode = "seq" /\ Quiet
       /\ Last.op = "sync_session" /\ Last.pc = "done" /\ Last.resp.code = 500 )
     => /\ subscriptions = pre[2] /\ processed = pre[3]
        /\ \/ customers = pre[1]
           \/ /\ \A c \in pre[1] : c.user_id # Last.user
              /\ customers =
                   CreateCustomer(pre[1], Last.user, stripe.sessions[Last.session].customer).tbl
  /\ RetryAfterFailure =>
       IF stripe.sessions[Last.session].subscription # ""
       THEN /\ Last.resp.code = 200 /\ Last.resp.success
            /\ db = SingleSyncRows(Last.user, Last.session)
       ELSE /\ Last.resp = FailureResp("No subscription found in Stripe session")
            /\ db = <<{}, {}, {}>>

\* the first sync stored the Customer row and failed to store the
\* Subscription row; the retry succeeded
C31_Witness ==
  /\ RetryAfterFailure
  /\ Prev.resp.message = "Failed to create subscription"
  /\ Last.resp.success
  /\ db = SingleSyncRows(Last.user, Last.session)

\* the step in which a customer-scoped sync that ran with no other request
\* in flight stores its merge
SettledSyncCommits(p) ==
  /\ mode = "seq"
  /\ slots[p].op = "sync_customer"
  /\ slots[p].pc \in {"updsub", "createsub"}
  /\ slots'[p].pc = "done" /\ slots'[p].resp.success

\* the row carries the provider's status, price id and period end
AsAtProvider(row, sub) ==
  /\ row.status = sub.status
  /\ row.price_id = PriceOf(sub.items)
  /\ row.current_period_end = TimeUnix(sub.current_period_end)

\* C32: when a customer-scoped sync that ran with no other request in flight
\* has stored its merge, every Subscription row of the provider's most recent
\* subscription of the customer carries the provider's status, price id and
\* period end.
C32_SyncConvergesToProvider ==
  [][\A p \in Procs :
       SettledSyncCommits(p) =>
         \A sub \in ListSubscriptions(slots[p].cust.stripe_id) :
           \A row \in subscriptions' : row.stripe_id = sub.id => AsAtProvider(row, sub)]_vars

\* the same, for a subscription that has one row
C32_SyncConvergesSingleRow ==
  [][\A p \in Procs :
       SettledSyncCommits(p) =>
         \A sub \in ListSubscriptions(slots[p].cust.stripe_id) :
           Cardinality({row \in subscriptions' : row.stripe_id = sub.id}) = 1 =>
             \A row \in subscriptions' : row.stripe_id = sub.id => AsAtProvider(row, sub)]_vars

\* C33: no step of any request removes a row: the user ids with a Customer
\* row, the provider subscription ids with a Subscription row and the
\* recorded session ids only grow, and so do the sets of row ids of the three
\* tables.
C33_RowsAreNeverRemoved ==
  [][ /\ {c.user_id : c \in customers} \subseteq {c.user_id : c \in customers'}
      /\ {s.stripe_id : s \in subscriptions} \subseteq {s.stripe_id : s \in subscriptions'}
      /\ {r.session_id : r \in processed} \subseteq {r.session_id : r \in processed'}
      /\ {c.id : c \in customers} \subseteq {c.id : c \in customers'}
      /\ {s.id : s \in subscriptions} \subseteq {s.id : s \in subscriptions'}
      /\ {r.id : r \in processed} \subseteq {r.id : r \in processed'} ]_vars

\* a cancellation or a customer.subscription.deleted event has turned a
\* stored row to canceled, and the three tables have as many rows as before
C33_Witness ==
  /\ mode = "seq" /\ Quiet /\ Last.pc = "done"
  /\ \/ Last.resp = CancelOK
     \/ Last.resp = WebhookOK /\ Last.ev.type = "customer.subscription.deleted"
  /\ \E r \in pre[2] : \E s \in subscriptions :
       /\ s.id = r.id
       /\ r.status # SubscriptionStatusCanceled /\ s.status = SubscriptionStatusCanceled
  /\ Cardinality(subscriptions) = Cardinality(pre[2])
  /\ customers = pre[1] /\ processed = pre[3] /\ processed # {}

\* the step in which the request on connection p, a webhook whose signature
\* verified, is answered
VerifiedHookAnswered(p) ==
  /\ slots'[p] # slots[p]
  /\ slots'[p].op = "webhook" /\ slots'[p].ev.sig_ok
  /\ slots'[p].pc = "done"

\* after the step, a Subscription row carries what the handler merges for
\* the event: status and period end of a subscription event, the active
\* subscription of a completed checkout session
EventApplied(e) ==
  IF e.type = "checkout.session.completed"
  THEN \E s \in subscriptions' :
         /\ s.stripe_id = stripe.sessions[e.session].subscription
         /\ s.status = SubscriptionStatusActive
  ELSE \E s \in subscriptions' :
         /\ s.stripe_id = e.sub
         /\ s.status = e.status
         /\ s.current_period_end = TimeUnix(e.current_period_end)

\* the step in which a webhook handler looks for the Customer row of the
\* event's provider customer
HookLooksForCustomer(p) ==
  /\ slots[p].pc \in {"wc_findcust", "ws_findcust"}
  /\ slots'[p] # slots[p]

StatusAnswered(p) ==
  /\ mode = "seq"
  /\ slots[p].op = "get_status" /\ InFlight(p)
  /\ slots'[p].pc = "done" /\ slots'[p].resp.code = 200

\* the active Subscription rows owned by a Customer row of the user
ActiveRowsOf(userID) ==
  {s \in subscriptions :
     /\ s.status = SubscriptionStatusActive
     /\ \E c \in customers : c.user_id = userID /\ s.customer_id = c.id}

\* C35: no step of a status request changes a row, and its 200 answer says
\* has_subscription = true, with status and period end of an active row owned
\* by a Customer row of the user, exactly when there is such a row.
C35_StatusReportsActiveRow ==
  [][\A p \in Procs :
       /\ (slots[p].op = "get_status" /\ slots'[p] # slots[p]) => db' = db
       /\ StatusAnswered(p) =>
            /\ slots'[p].resp.has_subscription <=> ActiveRowsOf(slots[p].user) # {}
            /\ slots'[p].resp.has_subscription =>
                 \E s \in ActiveRowsOf(slots[p].user) :
                   /\ slots'[p].resp.subscription_status = s.status
                   /\ slots'[p].resp.current_period_end = s.current_period_end]_vars

\* the latest request is a session-scoped sync of a session not yet in the
\* ledger that fetched the session and answered success
SessionSyncDone ==
  /\ mode = "seq" /\ Quiet
  /\ Last.op = "sync_session" /\ Last.pc = "done" /\ Last.newly
  /\ Last.resp.code = 200 /\ Last.resp.success /\ ~Last.resp.already_processed

\* C36: every Subscription row a session-scoped sync has created or changed
\* is owned by a Customer row with the provider customer id of the session,
\* and a ledger row it has added names a user whose Customer rows carry that
\* provider customer id.
C36_SessionBoundToPayingCustomer ==
  SessionSyncDone =>
    LET paying == stripe.sessions[Last.session].customer
    IN /\ \A s \in subscriptions \ pre[2] :
            \E c \in customers : c.id = s.customer_id /\ c.stripe_id = paying
       /\ \A r \in processed \ pre[3] :
            \A c \in customers : c.user_id = r.user_id => c.stripe_id = paying

\* C37: every Subscription row has a canceled-at exactly when its status is
\* canceled.
C37_CanceledAtIffCanceled ==
  \A s \in subscriptions :
    s.canceled_at # NullTime <=> s.status = SubscriptionStatusCanceled

\* C38: a CreateCheckoutSession request answered with an error leaves the
\* Customer, Subscription and ledger tables as they were when it started.
C38_FailedCheckoutLeavesNothing ==
  ( /\ mode = "seq" /\ Quiet
    /\ Last.op = "checkout" /\ Last.pc = "done"
    /\ Last.resp.code # 200 )
  => db = pre

\* the step in which the request on connection p stores the update branch of
\* its merge
UpdateBranchStores(p) ==
  /\ slots[p].pc \in {"updsub", "wc_update", "ws_update"}
  /\ subscriptions' # subscriptions

\* C39: every step keeps, for every Subscription row, a row with the same
\* id, owning customer id and provider subscription id; and a step that
\* stores the update branch of a merge changes no row but the one it read.
C39_UpdateKeepsOwnerAndKey ==
  [][ /\ \A s \in subscriptions : \E t \in subscriptions' :
           /\ t.id = s.id
           /\ t.customer_id = s.customer_id
           /\ t.stripe_id = s.stripe_id
      /\ \A p \in Procs :
           UpdateBranchStores(p) =>
             /\ {s \in subscriptions' : s.id # slots[p].sub.id}
                  = {s \in subscriptions : s.id # slots[p].sub.id}
             /\ Cardinality(subscriptions') = Cardinality(subscriptions) ]_vars

\* a session-scoped sync by a user who does not own the row has updated the
\* row of the session's subscription, which is still owned as before
C39_Witness ==
  /\ mode = "seq" /\ Quiet
  /\ Merged(Last) /\ Last.op = "sync_session"
  /\ \E r \in pre[2] : \E t \in subscriptions :
       /\ r.stripe_id = Last.snap.stripe_id
       /\ t.id = r.id /\ t.customer_id = r.customer_id
       /\ \E c \in customers : c.id = t.customer_id /\ c.user_id # Last.user
       /\ \E c \in customers : c.user_id = Last.user

====
